---- MODULE Spec2Model ----
(***************************************************************************)
(* Model of the DataQualityAudit tool (src/main.py): a pandas DataFrame is *)
(* built from a dict of lists, wrapped in DataQualityAudit, and scanned    *)
(* for missing values, duplicate rows and z-score anomalies.               *)
(*                                                                         *)
(* Arithmetic is exact: a z-score (v - mean) / std is kept as the pair     *)
(* num / sqrt(var) with num = n*v - S and var = n*Q - S*S (S the sum and Q *)
(* the sum of squares of the column), and a threshold as a fraction, so    *)
(* that |z| > t is decided on integers.                                    *)
(***************************************************************************)
EXTENDS Integers, Sequences, FiniteSets, TLC

\* Longest column of the enumerated input dicts.
MaxRows == 2

-----------------------------------------------------------------------------
(* Cell values: a number, the missing marker np.nan, a string.             *)

Num(n) == [kind |-> "num", val |-> n]
NaN == [kind |-> "nan", val |-> 0]
Str == [kind |-> "str", val |-> 0]

Cells == {Num(0), Num(1), NaN, Str}

ColumnNames == {"A", "B"}

Lists == UNION {[1..n -> Cells] : n \in 1..MaxRows}

NoDtypes(cols) == [c \in DOMAIN cols |-> "none"]

\* A dict of lists, as main() builds one.
Dict(cols) == [kind |-> "dict", cols |-> cols, dtypes |-> NoDtypes(cols)]

Dicts == {Dict(cols) : cols \in [ColumnNames -> Lists]}

\* The sample data of main().
MainData ==
    Dict([A |-> <<Num(1), Num(2), Num(3), Num(4), Num(5), Num(6), NaN, Num(8)>>,
          B |-> <<Num(1), Num(2), Num(2), Num(3), Num(4), NaN, Num(4), Num(5)>>,
          C |-> <<Num(10), Num(20), Num(30), Num(40), Num(50), Num(60), Num(70), Num(80)>>])

\* One numeric column with a single large value.
OutlierData ==
    Dict([A |-> <<Num(1), Num(1), Num(1), Num(1), Num(1), Num(1), Num(1), Num(1000)>>])

\* Same column followed by a missing cell.
OutlierMissingData ==
    Dict([A |-> <<Num(1), Num(1), Num(1), Num(1), Num(1), Num(1), Num(1), Num(1000), NaN>>])

\* A long column with one value far enough out to pass 3 standard deviations.
FarOutlierData ==
    Dict([A |-> <<Num(0), Num(0), Num(0), Num(0), Num(0), Num(0),
                  Num(0), Num(0), Num(0), Num(0), Num(0), Num(9)>>])

Inputs == Dicts \cup {MainData, OutlierData, OutlierMissingData, FarOutlierData}

None == [kind |-> "None", cols |-> [c \in {} |-> <<>>], dtypes |-> [c \in {} |-> "none"]]

-----------------------------------------------------------------------------
(* pandas: DataFrame construction and the frame operations the code uses.  *)

Rectangular(cols) == \A c, d \in DOMAIN cols : Len(cols[c]) = Len(cols[d])

\* dtype pandas infers for a non-empty list of ints, np.nan and strings.
InferDtype(values) ==
    IF \E i \in DOMAIN values : values[i].kind = "str" THEN "object"
    ELSE IF \E i \in DOMAIN values : values[i].kind = "nan" THEN "float64"
    ELSE "int64"

PdDataFrame(data) ==
    [kind |-> "DataFrame", cols |-> data.cols,
     dtypes |-> [c \in DOMAIN data.cols |-> InferDtype(data.cols[c])]]

Columns(frame) == DOMAIN frame.cols

NRows(frame) == Len(frame.cols[CHOOSE c \in Columns(frame) : TRUE])

RECURSIVE SumSeq(_)
SumSeq(s) == IF s = <<>> THEN 0 ELSE Head(s) + SumSeq(Tail(s))

\* Element of df.isnull()
IsNull(cell) == cell.kind = "nan"

\* Variant: the counts of the numeric columns only.
IsNullSumNumericOnly(frame) ==
    [c \in {d \in Columns(frame) : frame.dtypes[d] # "object"} |->
        SumSeq([i \in 1..NRows(frame) |-> IF IsNull(frame.cols[c][i]) THEN 1 ELSE 0])]

\* df.isnull().sum()
IsNullSum(frame) ==
    [c \in Columns(frame) |->
        SumSeq([i \in 1..NRows(frame) |-> IF IsNull(frame.cols[c][i]) THEN 1 ELSE 0])]

\* Variant: float comparison, where np.nan equals nothing.
CellEqualIEEE(a, b) == a.kind # "nan" /\ b.kind # "nan" /\ a = b

\* Equality of two cells as df.duplicated() sees it: it hashes the values,
\* and np.nan matches np.nan.
CellEqual(a, b) ==
    IF a.kind = "nan" \/ b.kind = "nan" THEN a.kind = b.kind ELSE a = b

\* df.duplicated(): a row is marked when an earlier row equals it (keep='first').
Duplicated(frame) ==
    [i \in 1..NRows(frame) |->
        \E j \in 1..(i - 1) :
            \A c \in Columns(frame) : CellEqual(frame.cols[c][j], frame.cols[c][i])]

\* df.duplicated().sum()
DuplicatedSum(frame) ==
    SumSeq([i \in 1..NRows(frame) |-> IF Duplicated(frame)[i] THEN 1 ELSE 0])

\* Variant: include=[float].
SelectFloatOnly(frame) == {c \in Columns(frame) : frame.dtypes[c] = "float64"}

\* df.select_dtypes(include=[np.number]): the columns of a numeric dtype.
SelectDtypesNumber(frame) ==
    {c \in Columns(frame) : frame.dtypes[c] \in {"int64", "float64"}}

-----------------------------------------------------------------------------
(* scipy.stats.zscore (axis=0, ddof=0, nan_policy='propagate') on a column *)

ZNaN == [nan |-> TRUE, num |-> 0, var |-> 0]

ZScore(values) ==
    LET n == Len(values)
        S == SumSeq([i \in 1..n |-> values[i].val])
        Q == SumSeq([i \in 1..n |-> values[i].val * values[i].val])
        hasnan == \E i \in 1..n : values[i].kind = "nan"
        isconst == \A i \in 1..n : values[i] = values[1]
    IN  [i \in 1..n |->
            IF hasnan \/ isconst THEN ZNaN
            ELSE [nan |-> FALSE, num |-> n * values[i].val - S, var |-> n * Q - S * S]]

-----------------------------------------------------------------------------
(* Thresholds: a fraction num/den, nan, inf, or no argument given.         *)

Rat(n, d) == [kind |-> "num", num |-> n, den |-> d]
ThrNaN == [kind |-> "nan", num |-> 0, den |-> 1]
ThrInf == [kind |-> "inf", num |-> 0, den |-> 1]
NoArg == [kind |-> "noarg", num |-> 0, den |-> 1]

\* Variant: z_threshold=2
DefaultZThresholdLow == Rat(2, 1)

\* z_threshold=3
DefaultZThreshold == Rat(3, 1)

ValidThresholds == {Rat(1, 2), Rat(1, 1), Rat(3, 1)}
InvalidThresholds == {Rat(0, 1), Rat(-1, 1), ThrNaN, ThrInf}
Thresholds == ValidThresholds \cup InvalidThresholds

\* Variant: ~(np.abs(z) <= z_threshold), which is True for nan.
ExceedsNotLE(z, t) ==
    IF z.nan \/ t.kind = "nan" THEN TRUE
    ELSE IF t.kind = "inf" THEN FALSE
    ELSE IF t.num < 0 THEN TRUE
    ELSE ~ (z.num * z.num * t.den * t.den <= t.num * t.num * z.var)

\* np.abs(z) > z_threshold for one element; a comparison with nan is False.
Exceeds(z, t) ==
    IF z.nan \/ t.kind = "nan" THEN FALSE
    ELSE IF t.kind = "inf" THEN FALSE
    ELSE IF t.num < 0 THEN TRUE
    ELSE z.num * z.num * t.den * t.den > t.num * t.num * z.var

\* np.abs(stats.zscore(numeric_cols)) > z_threshold
AnomalyMask(frame, t) ==
    [c \in SelectDtypesNumber(frame) |->
        [i \in 1..NRows(frame) |-> Exceeds(ZScore(frame.cols[c])[i], t)]]

-----------------------------------------------------------------------------
(* Outcomes of a call: it raises, or it returns a value.                   *)

NoValue ==
    [missing_values |-> [c \in {} |-> 0],
     duplicate_rows |-> 0,
     anomalies |-> [c \in {} |-> <<>>]]

Raise(exc) == [error |-> exc, returned |-> "nothing", value |-> NoValue]

Return(type, value) == [error |-> "none", returned |-> type, value |-> value]

\* Exceptions are named by their type.
\* raise ValueError("Provided data must be a pandas DataFrame.")
InvalidInputKind == "ValueError"

\* print(...) with stdout broken raises OSError.
PrintFails(broken) == broken

\* Variant: no isinstance check.
DataQualityAuditUnchecked(dataframe) == Return("DataQualityAudit", NoValue)

\* DataQualityAudit.__init__
DataQualityAudit(dataframe) ==
    IF dataframe.kind # "DataFrame" THEN Raise(InvalidInputKind)
    ELSE Return("DataQualityAudit", NoValue)

check_missing_values(frame, broken) ==
    IF frame.kind # "DataFrame" THEN Raise("AttributeError")
    ELSE IF PrintFails(broken) THEN Raise("OSError")
    ELSE Return("Series", [NoValue EXCEPT !.missing_values = IsNullSum(frame)])

check_duplicates(frame, broken) ==
    IF frame.kind # "DataFrame" THEN Raise("AttributeError")
    ELSE IF PrintFails(broken) THEN Raise("OSError")
    ELSE Return("int", [NoValue EXCEPT !.duplicate_rows = DuplicatedSum(frame)])

detect_anomalies(frame, z_threshold, broken) ==
    LET t == IF z_threshold.kind = "noarg" THEN DefaultZThreshold ELSE z_threshold
    IN  IF frame.kind # "DataFrame" THEN Raise("AttributeError")
        ELSE IF PrintFails(broken) THEN Raise("OSError")
        ELSE Return("mask", [NoValue EXCEPT !.anomalies = AnomalyMask(frame, t)])

\* Variant: a failed scan is reported as an empty result.
summary_report_swallow(frame, fail_at) ==
    LET m == check_missing_values(frame, fail_at = 1)
        d == check_duplicates(frame, fail_at = 2)
        a == detect_anomalies(frame, NoArg, fail_at = 3)
    IN  Return("dict", [missing_values |-> m.value.missing_values,
                        duplicate_rows |-> d.value.duplicate_rows,
                        anomalies |-> a.value.anomalies])

\* summary_report(self) takes no threshold and calls detect_anomalies() with
\* none.  The dict display evaluates the three calls in order; the first
\* exception leaves the function.  fail_at: which of the three prints finds
\* stdout broken (0: none).
summary_report(frame, fail_at) ==
    LET m == check_missing_values(frame, fail_at = 1)
        d == check_duplicates(frame, fail_at = 2)
        a == detect_anomalies(frame, NoArg, fail_at = 3)
    IN  IF m.error # "none" THEN Raise(m.error)
        ELSE IF d.error # "none" THEN Raise(d.error)
        ELSE IF a.error # "none" THEN Raise(a.error)
        ELSE Return("dict", [missing_values |-> m.value.missing_values,
                             duplicate_rows |-> d.value.duplicate_rows,
                             anomalies |-> a.value.anomalies])

-----------------------------------------------------------------------------
(* State                                                                   *)

VARIABLES
    data,       \* the value the caller starts from (main: data)
    df,         \* main: df, the frame built from data, or None
    self_df,    \* DataQualityAudit.df, or None while no instance exists
    pc,         \* "start", "loaded", "ready" (an instance exists), "failed"
    call,       \* the last call: its name, arguments and whether print breaks
    error,      \* the exception the last call raised, or "none"
    returned,   \* the type of what the last call returned, or "nothing"
    value       \* the value the last call returned

vars == <<data, df, self_df, pc, call, error, returned, value>>

Call(op, arg, z, out) == [op |-> op, arg |-> arg, z |-> z, out |-> out]

Init ==
    /\ data \in Inputs
    /\ df = None
    /\ self_df = None
    /\ pc = "start"
    /\ call = Call("none", "none", NoArg, 0)
    /\ error = "none"
    /\ returned = "nothing"
    /\ value = NoValue

Finish(o) ==
    /\ error' = o.error
    /\ returned' = o.returned
    /\ value' = o.value

\* main: df = pd.DataFrame(data); columns of unequal length raise
\* ValueError("All arrays must be of the same length"), which nothing catches.
MakeDataFrame ==
    /\ pc = "start"
    /\ call' = Call("pd.DataFrame", "data", NoArg, 0)
    /\ IF Rectangular(data.cols)
       THEN /\ df' = PdDataFrame(data)
            /\ pc' = "loaded"
            /\ Finish(Return("DataFrame", NoValue))
       ELSE /\ df' = df
            /\ pc' = "failed"
            /\ Finish(Raise("ValueError"))
    /\ UNCHANGED <<data, self_df>>

\* dq_audit = DataQualityAudit(x), x the frame or the raw dict.
Construct(arg) ==
    /\ pc \in {"start", "loaded"}
    /\ arg = "df" => pc = "loaded"
    /\ LET x == IF arg = "df" THEN df ELSE data
           o == DataQualityAudit(x)
       IN  /\ call' = Call("__init__", arg, NoArg, 0)
           /\ Finish(o)
           /\ IF o.error = "none"
              THEN self_df' = x /\ pc' = "ready"
              ELSE self_df' = self_df /\ pc' = "failed"
    /\ UNCHANGED <<data, df>>

CheckMissingValues(broken) ==
    /\ pc = "ready"
    /\ call' = Call("check_missing_values", "self", NoArg, IF broken THEN 1 ELSE 0)
    /\ Finish(check_missing_values(self_df, broken))
    /\ UNCHANGED <<data, df, self_df, pc>>

CheckDuplicates(broken) ==
    /\ pc = "ready"
    /\ call' = Call("check_duplicates", "self", NoArg, IF broken THEN 1 ELSE 0)
    /\ Finish(check_duplicates(self_df, broken))
    /\ UNCHANGED <<data, df, self_df, pc>>

DetectAnomalies(z, broken) ==
    /\ pc = "ready"
    /\ call' = Call("detect_anomalies", "self", z, IF broken THEN 1 ELSE 0)
    /\ Finish(detect_anomalies(self_df, z, broken))
    /\ UNCHANGED <<data, df, self_df, pc>>

SummaryReport(fail_at) ==
    /\ pc = "ready"
    /\ call' = Call("summary_report", "self", NoArg, fail_at)
    /\ Finish(summary_report(self_df, fail_at))
    /\ UNCHANGED <<data, df, self_df, pc>>

Next ==
    \/ MakeDataFrame
    \/ \E arg \in {"df", "data"} : Construct(arg)
    \/ \E broken \in BOOLEAN : CheckMissingValues(broken)
    \/ \E broken \in BOOLEAN : CheckDuplicates(broken)
    \/ \E z \in Thresholds \cup {NoArg}, broken \in BOOLEAN : DetectAnomalies(z, broken)
    \/ \E fail_at \in 0..3 : SummaryReport(fail_at)

Spec == Init /\ [][Next]_vars

-----------------------------------------------------------------------------
(* What the specification says, computed from the cell values alone.       *)

ScannerOps ==
    {"check_missing_values", "check_duplicates", "detect_anomalies", "summary_report"}

\* The threshold a call asks for: the default when it names none.
Asked(z) == IF z.kind = "noarg" THEN Rat(3, 1) ELSE z

PresentIdx(values) == {i \in DOMAIN values : values[i].kind # "nan"}

RECURSIVE SumOver(_, _, _)
SumOver(values, idx, square) ==
    IF idx = {} THEN 0
    ELSE LET i == CHOOSE k \in idx : TRUE
             v == values[i].val
         IN  (IF square THEN v * v ELSE v) + SumOver(values, idx \ {i}, square)

\* |v - mean| / sigma > t over the present values of the column, sigma > 0.
FlagOverPresent(values, i, t) ==
    LET P == PresentIdx(values)
        n == Cardinality(P)
        S == SumOver(values, P, FALSE)
        Q == SumOver(values, P, TRUE)
        variance == n * Q - S * S
        dev == n * values[i].val - S
    IN  /\ i \in P
        /\ variance > 0
        /\ dev * dev * t.den * t.den > t.num * t.num * variance

\* A column whose every present value is a number.
NumericByValues(frame) ==
    {c \in Columns(frame) :
        \A i \in DOMAIN frame.cols[c] : frame.cols[c][i].kind \in {"num", "nan"}}

ConstantColumn(values) ==
    \A i, j \in PresentIdx(values) : values[i] = values[j]

Row(frame, i) == [c \in Columns(frame) |-> frame.cols[c][i]]

DetectReturned == call.op = "detect_anomalies" /\ call.out = 0

-----------------------------------------------------------------------------
(* Claims                                                                  *)

\* C1: for a valid threshold t the detector takes mean and population standard
\* deviation over the present values of each numeric column, flags a present
\* cell exactly when |v - mean| / sigma > t, and flags no missing cell.
C1_PresentOnlyStatistics ==
    (DetectReturned /\ call.z \in ValidThresholds \cup {NoArg}) =>
        /\ returned = "mask"
        /\ \A c \in DOMAIN value.anomalies :
             \A i \in 1..NRows(self_df) :
                value.anomalies[c][i] = FlagOverPresent(self_df.cols[c], i, Asked(call.z))

OutlierAudited ==
    /\ DetectReturned
    /\ call.z = NoArg
    /\ self_df = PdDataFrame(OutlierData)

\* C2 as stated: for the column [1,1,1,1,1,1,1,1000] and the default threshold
\* 3.0 the cell holding 1000 is flagged and the seven cells holding 1 are not.
C2_OutlierFlagged ==
    OutlierAudited =>
        /\ value.anomalies["A"][8] = TRUE
        /\ \A i \in 1..7 : value.anomalies["A"][i] = FALSE

\* C2 amended: for the column [1,1,1,1,1,1,1,1000] and the default threshold
\* 3.0 no cell is flagged (the z-score of 1000 is sqrt(7), below 3).
C2_OutlierNotFlagged ==
    OutlierAudited =>
        /\ returned = "mask"
        /\ DOMAIN value.anomalies = {"A"}
        /\ \A i \in 1..8 : value.anomalies["A"][i] = FALSE

C2_Witness == OutlierAudited /\ returned = "mask"

\* C3: a numeric column whose present values are all equal (also one or no
\* present value) gets an all-false mask for every positive threshold, and the
\* call returns instead of failing.
C3_ConstantColumnNeverFlagged ==
    (DetectReturned /\ call.z \in ValidThresholds \cup {NoArg}) =>
        /\ error = "none"
        /\ returned = "mask"
        /\ \A c \in NumericByValues(self_df) :
             ConstantColumn(self_df.cols[c]) =>
                /\ c \in DOMAIN value.anomalies
                /\ value.anomalies[c] = [i \in 1..NRows(self_df) |-> FALSE]

C3_Witness ==
    /\ DetectReturned
    /\ call.z = Rat(1, 2)
    /\ returned = "mask"
    /\ \E c \in NumericByValues(self_df) :
         /\ ConstantColumn(self_df.cols[c])
         /\ Cardinality(PresentIdx(self_df.cols[c])) = 1
         /\ NRows(self_df) = 2
    /\ \E c \in NumericByValues(self_df) :
         /\ ConstantColumn(self_df.cols[c])
         /\ Cardinality(PresentIdx(self_df.cols[c])) = 2

\* C4: a call of the detector with a threshold that is zero, negative, nan or
\* infinite fails with InvalidThreshold and returns no mask.
C4_InvalidThresholdRejected ==
    (call.op = "detect_anomalies" /\ call.z \in InvalidThresholds) =>
        /\ error = "InvalidThreshold"
        /\ returned = "nothing"

\* C5: construction from a value that is not a well-formed table fails with
\* the invalid-input error, and no scanner or audit ever runs on such input.
C5_InvalidInputRejected ==
    /\ (call.op = "__init__" /\ call.arg = "data") =>
          /\ error = InvalidInputKind
          /\ pc = "failed"
          /\ self_df = None
    /\ (call.op = "pd.DataFrame" /\ ~ Rectangular(data.cols)) =>
          /\ error = InvalidInputKind
          /\ pc = "failed"
          /\ df = None
    /\ ~ Rectangular(data.cols) =>
          /\ self_df = None
          /\ call.op \notin ScannerOps
    /\ call.op \in ScannerOps =>
          /\ self_df.kind = "DataFrame"
          /\ Rectangular(self_df.cols)

C5_Witness ==
    /\ call.op = "__init__"
    /\ ~ Rectangular(data.cols)
    /\ error = InvalidInputKind
    /\ self_df = None

\* C6: the duplicate scan returns the row count minus the number of distinct
\* rows, a missing marker being equal to a missing marker and to nothing else.
C6_DuplicateCount ==
    (call.op = "check_duplicates" /\ call.out = 0) =>
        /\ returned = "int"
        /\ value.duplicate_rows =
             NRows(self_df)
               - Cardinality({Row(self_df, i) : i \in 1..NRows(self_df)})

C6_Witness ==
    /\ call.op = "check_duplicates"
    /\ returned = "int"
    /\ value.duplicate_rows = 1
    /\ \E c \in Columns(self_df) : self_df.cols[c] = <<NaN, NaN>>

\* C7: the missing-value scan returns one entry per column, numeric or not,
\* equal to the number of cells of that column holding the missing marker.
C7_MissingCount ==
    (call.op = "check_missing_values" /\ call.out = 0) =>
        /\ returned = "Series"
        /\ DOMAIN value.missing_values = Columns(self_df)
        /\ \A c \in Columns(self_df) :
             value.missing_values[c] =
                Cardinality({i \in 1..NRows(self_df) : self_df.cols[c][i] = NaN})

C7_Witness ==
    /\ call.op = "check_missing_values"
    /\ returned = "Series"
    /\ \E c \in Columns(self_df) :
         /\ c \notin NumericByValues(self_df)
         /\ value.missing_values[c] = 1
    /\ \E c \in NumericByValues(self_df) : value.missing_values[c] = 2

C9_ReportUsesCallerThreshold ==
    (call.op = "summary_report" /\ call.out = 0) =>
        /\ returned = "dict"
        /\ \A t \in ValidThresholds \cup {NoArg} :
             value = [missing_values |-> IsNullSum(self_df),
                      duplicate_rows |-> DuplicatedSum(self_df),
                      anomalies |-> AnomalyMask(self_df, Asked(t))]

\* C10: an audit ends either with a complete report of the three results or
\* with the unchanged failure of one of the sub-scans; it returns no partial
\* report, substitutes no default, and does not fail when the sub-scans succeed.
C10_CompleteReportOrFailure ==
    call.op = "summary_report" =>
        LET m == check_missing_values(self_df, call.out = 1)
            d == check_duplicates(self_df, call.out = 2)
            a == detect_anomalies(self_df, NoArg, call.out = 3)
            failures == {m.error, d.error, a.error} \ {"none"}
        IN  IF failures = {}
            THEN /\ error = "none"
                 /\ returned = "dict"
                 /\ value = [missing_values |-> m.value.missing_values,
                             duplicate_rows |-> d.value.duplicate_rows,
                             anomalies |-> a.value.anomalies]
            ELSE /\ error \in failures
                 /\ returned = "nothing"
                 /\ value = NoValue

C10_Witness ==
    /\ call.op = "summary_report"
    /\ call.out = 3
    /\ error = "OSError"
    /\ returned = "nothing"

====
